---- MODULE Spec2Model ----
(***************************************************************************)
(* Card submission, card editing and score keeping of the betting league   *)
(* application: the betting page (src/src/pages/Betting.tsx), the          *)
(* update_card_score trigger (src/unnamed/part_000) and the constraints    *)
(* and row policies of the cards and bets tables (src/supabase/migrations).*)
(***************************************************************************)
EXTENDS Integers, FiniteSets, Sequences, TLC

\* ------------------------------------------------------------------------
\* Bounds of the model
\* ------------------------------------------------------------------------
EarlyEvents == 2      \* events 1..EarlyEvents are listed first and start first
NumEvents == 3        \* events the feed lists, interleaved specification
NumEventsTwo == 1     \* events the feed lists, two-session specification
NumEventsRace == 2    \* events the feed lists, race specification
NumEventsOverfill == 2 \* late events the feed lists, two-editors specification
NumEventsPolicies == 1 \* events the feed lists, policies specification
NumEventsScore == 3   \* events the feed lists, scoring specification
NumEventsLedger == 6  \* events the feed lists, ledger specification
MaxTime == 2          \* the clock runs over 0..MaxTime
MaxBets == 7          \* rows the bets table holds at most
MaxCardId == 2        \* values the cards id sequence hands out
TicksPerWeek == 2     \* clock ticks in the 604800000 ms of one week
MaxBoardPicks == 3    \* picks in the tables, standings specification
NumPlayers == 11      \* members of the league, season specification
MaxDay == 24          \* the calendar runs over MaxDay days from the creation of the league
MaxMembers == 2       \* max_members of the league

\* ------------------------------------------------------------------------
\* Program constants
\* ------------------------------------------------------------------------
MAX_PICKS == 5

Sessions == {"s1", "s2"}
Grader == "grader"
Actors == Sessions \cup {Grader}
Sides == {"home", "away"}
AllEvents == 1..NumEventsLedger

UserId == "u1"
Users == {"u1", "u2", "u3", "u4"}
LeagueId == "l1"
NoCard == 0
NoTxn == [kind |-> "none", card |-> NoCard, del |-> {}, ins |-> {}, upd |-> {},
          val |-> "null", cnt |-> 0]

VARIABLES
    now,              \* wall clock, in ticks
    listing,          \* the events the odds feed lists in upcoming_events
    browsers,         \* the browser sessions that open the betting page
    outcome,          \* winning side of each finished game, "none" before
    cards,            \* rows of the cards table
    bets,             \* rows of the bets table
    card_seq,         \* last value of the cards id sequence
    txn,              \* the statement each actor has in flight
    ui,               \* state of the betting page in each browser session
    today,            \* the calendar day, counted from January 1st
    leagueCreatedAt,  \* the day the league was created
    selectedWeek,     \* the week the league page shows
    weeklyData,       \* weekly standings as the leaderboard last computed them
    allTimeCards,     \* the card rows the all-time query last read, in read order
    allTimeData,      \* all-time standings as the leaderboard last computed them
    leagues,          \* rows of the leagues table
    league_members,   \* rows of the league_members table
    clients           \* the league request each signed-in user has under way

\* the variables of the league page
leagueVars == <<today, leagueCreatedAt, selectedWeek, weeklyData, allTimeCards, allTimeData>>

\* the variables of the betting page and of the statements against its tables
pageVars == <<now, listing, browsers, outcome, card_seq, txn, ui>>

\* the variables of the leagues and their members
memberVars == <<leagues, league_members, clients>>

vars == <<now, listing, browsers, leagueVars, memberVars, outcome, cards, bets, card_seq, txn, ui>>

\* ------------------------------------------------------------------------
\* The upcoming_events table and the clock
\* ------------------------------------------------------------------------
\* the early events start in tick 0, the others one tick before the last
start_date(e) == IF e <= EarlyEvents THEN 0 ELSE MaxTime - 1

\* the feed lists the early events from the start, the others within the
\* tick in which they start
listed_at(e) == IF e <= EarlyEvents THEN 0 ELSE MaxTime - 1

upcoming_events == {e \in listing : listed_at(e) <= now}

\* Betting.tsx 281-287: Math.ceil((now - Jan 1st) / oneWeek); the instant
\* lies inside tick t, so the quotient is not a whole number
getWeekNumber(t) == (t \div TicksPerWeek) + 1

\* Betting.tsx 77, 194: new Date().getFullYear(); the clock stays in one year
getFullYear(t) == 2025

\* Betting.tsx 51-63: .gte("start_date", now)
UpcomingEventsQuery == {e \in upcoming_events : start_date(e) >= now}

\* event.home_moneyline / event.away_moneyline handed to handleSelectTeam
Moneyline(e, side) == IF side = "home" THEN 0 - (100 + e) ELSE 100 + e

\* ------------------------------------------------------------------------
\* Rows
\* ------------------------------------------------------------------------
BetsOfCard(B, cid) == {b \in B : b.card_id = cid}

\* part_000 10-17: SELECT COALESCE(COUNT( * ), 0) FROM bets WHERE card_id = .. AND result = true
WonCount(B, cid) == Cardinality({b \in BetsOfCard(B, cid) : b.result = "true"})

\* part_000 10-17: UPDATE cards SET total_score = .. WHERE id = ..
SetScore(C, cid, n) ==
    {IF c.id = cid THEN [c EXCEPT !.total_score = n] ELSE c : c \in C}

\* ------------------------------------------------------------------------
\* The betting page: derived values
\* ------------------------------------------------------------------------
ClosedUi ==
    [open |-> FALSE, events |-> {}, existingCard |-> NoCard,
     existingBets |-> {}, hasBets |-> FALSE, isEditing |-> FALSE,
     selections |-> [e \in AllEvents |-> "none"], pc |-> "idle",
     cardId |-> NoCard]

\* the classification with its test turned around
lockedBets_upcoming(u) ==
    IF ~u.hasBets THEN {}
    ELSE {b \in u.existingBets : b.event_id \in u.events}

\* Betting.tsx 100-121: bets whose event is not among the fetched events
lockedBets(u) ==
    IF ~u.hasBets THEN {}
    ELSE {b \in u.existingBets : b.event_id \notin u.events}

editableBetEventIds(u) ==
    IF ~u.hasBets THEN {}
    ELSE {b.event_id : b \in {x \in u.existingBets : x.event_id \in u.events}}

SelectedEvents(sel) == {e \in AllEvents : sel[e] # "none"}

\* Betting.tsx 123-141: the effect that loads the editable bets into selections
LoadSelections(u) ==
    IF u.isEditing /\ u.hasBets /\ u.existingBets # {}
    THEN [u EXCEPT !.selections =
            [e \in AllEvents |->
                IF e \in editableBetEventIds(u)
                THEN LET bs == {b \in u.existingBets : b.event_id = e}
                         last == CHOOSE b \in bs : \A o \in bs : o.id <= b.id
                     IN last.selected_team_id
                ELSE "none"]]
    ELSE u

\* Betting.tsx 293-294
totalPickCount(u) == Cardinality(SelectedEvents(u.selections)) + Cardinality(lockedBets(u))

\* Betting.tsx 297: the read-only view of an existing card is shown
ViewOnly(u) == u.existingCard # NoCard /\ ~u.isEditing

\* Betting.tsx 418: the pick screen with its submit button is rendered
PickScreen(u) == u.open /\ ~ViewOnly(u) /\ u.events # {}

\* ------------------------------------------------------------------------
\* Statements against the bets table.  Each request of the page and each
\* update of the grader is one autocommit transaction at READ COMMITTED:
\* Begin takes the row locks, makes the row changes and evaluates the count
\* of the first row trigger; Commit publishes the rows and the score.
\* ------------------------------------------------------------------------
BetIds(B) == {b.id : b \in B}

\* rows as the statement leaves them
ApplyRows(B, t) ==
    {IF b.id \in t.upd THEN [b EXCEPT !.result = t.val] ELSE b :
        b \in {x \in B : x.id \notin t.del}} \cup t.ins

RowsAffected(t) == Cardinality(t.del) + Cardinality(t.ins) + Cardinality(t.upd)

\* rows locked by the statements of the other actors
LockedRows(a) == UNION {txn[o].del \cup txn[o].upd : o \in Actors \ {a}}

\* the trigger written as an increment: a bet set to true adds one
update_card_score_incr(C, B, t) ==
    IF t.val = "true" /\ t.upd # {}
    THEN {IF c.id = t.card THEN [c EXCEPT !.total_score = @ + 1] ELSE c : c \in C}
    ELSE C

\* the trigger without "AND bets.result = true"
update_card_score_all(C, B, t) ==
    IF RowsAffected(t) = 0 THEN C
    ELSE SetScore(C, t.card, Cardinality(BetsOfCard(B, t.card)))

\* part_000 8-20, 24-27: the trigger runs once for each affected row.  The
\* first run counts under its own snapshot and then waits for the card row;
\* every later run counts while the card row is held, i.e. on current rows.
update_card_score(C, B, t) ==
    IF RowsAffected(t) = 0 THEN C
    ELSE IF RowsAffected(t) = 1 THEN SetScore(C, t.card, t.cnt)
    ELSE SetScore(C, t.card, WonCount(B, t.card))

BeginStmt(a, t) ==
    /\ txn[a] = NoTxn
    /\ (t.del \cup t.upd) \cap LockedRows(a) = {}
    /\ txn' = [txn EXCEPT ![a] = [t EXCEPT !.cnt = WonCount(ApplyRows(bets, t), t.card)]]

CommitStmt(a) ==
    /\ txn[a] # NoTxn
    /\ bets' = ApplyRows(bets, txn[a])
    /\ cards' = update_card_score(cards, bets', txn[a])
    /\ txn' = [txn EXCEPT ![a] = NoTxn]

\* ------------------------------------------------------------------------
\* The betting page: queries and handlers
\* ------------------------------------------------------------------------
\* Betting.tsx 65-83: the card of this user, league, week and year
CardQuery ==
    LET m == {c \in cards : /\ c.user_id = UserId /\ c.league_id = LeagueId
                            /\ c.week_number = getWeekNumber(now)
                            /\ c.season_year = getFullYear(now)}
    IN IF m = {} THEN NoCard ELSE (CHOOSE c \in m : TRUE).id

\* Betting.tsx 85-98: the bets of the card, as the page uses them
BetsQuery(cid) ==
    {[id |-> b.id, event_id |-> b.event_id, selected_team_id |-> b.selected_team_id] :
        b \in BetsOfCard(bets, cid)}

\* Betting.tsx 36-98: the page mounts and its queries load
Open(s) ==
    /\ s \in browsers
    /\ ~ui[s].open
    /\ LET cid == CardQuery
       IN ui' = [ui EXCEPT ![s] =
            [ClosedUi EXCEPT !.open = TRUE,
                             !.events = UpcomingEventsQuery,
                             !.existingCard = cid,
                             !.hasBets = (cid # NoCard),
                             !.existingBets = BetsQuery(cid)]]
    /\ UNCHANGED <<now, listing, browsers, leagueVars, memberVars, outcome, cards, bets, card_seq, txn>>

\* Betting.tsx 51-98, 123-141: the queries of the page refetch (on window
\* focus or reconnect) and bring new data; the effect reloads the selections
Refetch(s) ==
    /\ ui[s].open /\ ui[s].pc = "idle"
    /\ LET cid == CardQuery
           nu == [ui[s] EXCEPT !.events = UpcomingEventsQuery,
                               !.existingCard = cid,
                               !.hasBets = (cid # NoCard),
                               !.existingBets = BetsQuery(cid)]
       IN /\ nu # ui[s]
          /\ ui' = [ui EXCEPT ![s] = LoadSelections(nu)]
    /\ UNCHANGED <<now, listing, browsers, leagueVars, memberVars, outcome, cards, bets, card_seq, txn>>

\* Betting.tsx 289-291, 123-141
handleStartEditing(s) ==
    /\ ui[s].open /\ ui[s].pc = "idle"
    /\ ViewOnly(ui[s])
    /\ ui' = [ui EXCEPT ![s] = LoadSelections([@ EXCEPT !.isEditing = TRUE])]
    /\ UNCHANGED <<now, listing, browsers, leagueVars, memberVars, outcome, cards, bets, card_seq, txn>>

\* Betting.tsx 244-279: the new value of selections after a click
\* the click handler without the test of the limit
SelectTeam_nolimit(u, e, side) ==
    IF u.selections[e] = side
    THEN [u.selections EXCEPT ![e] = "none"]
    ELSE [u.selections EXCEPT ![e] = side]

\* a click on the chosen team keeps the pick
SelectTeam_sticky(u, e, side) ==
    IF u.selections[e] = "none"
       /\ Cardinality(SelectedEvents(u.selections)) + Cardinality(lockedBets(u)) >= MAX_PICKS
    THEN u.selections
    ELSE [u.selections EXCEPT ![e] = side]

SelectTeam(u, e, side) ==
    IF u.selections[e] = side
    THEN [u.selections EXCEPT ![e] = "none"]
    ELSE IF u.selections[e] = "none"
            /\ Cardinality(SelectedEvents(u.selections)) + Cardinality(lockedBets(u)) >= MAX_PICKS
    THEN u.selections
    ELSE [u.selections EXCEPT ![e] = side]

handleSelectTeam(s, e, side) ==
    /\ PickScreen(ui[s]) /\ ui[s].pc = "idle"
    /\ e \in ui[s].events
    /\ ui' = [ui EXCEPT ![s].selections = SelectTeam(ui[s], e, side)]
    /\ UNCHANGED <<now, listing, browsers, leagueVars, memberVars, outcome, cards, bets, card_seq, txn>>

\* Betting.tsx 144-158, 475-479: the submit button starts the mutation
CheckPicks(u) ==
    IF totalPickCount(u) = 0 THEN "empty"
    ELSE IF totalPickCount(u) > MAX_PICKS THEN "max"
    ELSE "ok"

Submit(s) ==
    /\ PickScreen(ui[s]) /\ ui[s].pc = "idle"
    /\ totalPickCount(ui[s]) # 0
    /\ ui' = [ui EXCEPT ![s] =
         IF CheckPicks(@) # "ok" THEN @
         ELSE IF @.existingCard # NoCard /\ @.isEditing
              THEN [@ EXCEPT !.pc = "delete"]
              ELSE [@ EXCEPT !.pc = "insert_card"]]
    /\ UNCHANGED <<now, listing, browsers, leagueVars, memberVars, outcome, cards, bets, card_seq, txn>>

\* the edit without its delete
DeleteTargets_none(u) == {}

\* Betting.tsx 162-185: delete the bets of the card that are not locked
DeleteTargets(u) ==
    LET lockedEventIds == {b.event_id : b \in lockedBets(u)}
    IN IF lockedEventIds # {}
       THEN {b \in bets : b.card_id = u.existingCard /\ b.event_id \notin lockedEventIds}
       ELSE {b \in bets : b.card_id = u.existingCard}

DeleteBets(s) ==
    /\ ui[s].pc = "delete"
    /\ BeginStmt(s, [NoTxn EXCEPT !.kind = "delete", !.card = ui[s].existingCard,
                                  !.del = BetIds(DeleteTargets(ui[s]))])
    /\ ui' = [ui EXCEPT ![s].pc = "delete_sent", ![s].cardId = ui[s].existingCard]
    /\ UNCHANGED <<now, listing, browsers, leagueVars, memberVars, outcome, cards, bets, card_seq>>

\* Betting.tsx 223-234: onSuccess invalidates the queries and leaves the page
AfterBets(u) == ClosedUi

\* Betting.tsx 203-221: nothing to insert when there are no selections
AfterCard(u) ==
    IF SelectedEvents(u.selections) # {} THEN [u EXCEPT !.pc = "insert_bets"]
    ELSE AfterBets(u)

DeleteDone(s) ==
    /\ ui[s].pc = "delete_sent"
    /\ CommitStmt(s)
    /\ ui' = [ui EXCEPT ![s] = AfterCard(@)]
    /\ UNCHANGED <<now, listing, browsers, leagueVars, memberVars, outcome, card_seq>>

\* Betting.tsx 186-201 and unique_user_league_week (migration 20251202185902, 12-21)
NewCard(id, t) ==
    [id |-> id, user_id |-> UserId, league_id |-> LeagueId,
     week_number |-> getWeekNumber(t), season_year |-> getFullYear(t),
     total_score |-> 0]

\* a foreign key (migration 20251204215941): the row needs its parent row
references(P, id) == \E r \in P : r.id = id

\* the cards table without the unique constraint
unique_user_league_week_off(C, c) == TRUE

unique_user_league_week(C, c) ==
    \A o \in C : ~(/\ o.user_id = c.user_id /\ o.league_id = c.league_id
                   /\ o.week_number = c.week_number /\ o.season_year = c.season_year)

InsertCard(s) ==
    /\ ui[s].pc = "insert_card"
    /\ txn[s] = NoTxn
    /\ LET c == NewCard(card_seq + 1, now)
       IN IF unique_user_league_week(cards, c) /\ references(leagues, c.league_id)
          THEN /\ card_seq < MaxCardId
               /\ cards' = cards \cup {c}
               /\ card_seq' = card_seq + 1
               /\ ui' = [ui EXCEPT ![s] = AfterCard([@ EXCEPT !.cardId = c.id])]
          ELSE /\ ui' = [ui EXCEPT ![s].pc = "idle", ![s].cardId = NoCard]
               /\ UNCHANGED <<cards, card_seq>>
    /\ UNCHANGED <<now, listing, browsers, leagueVars, memberVars, outcome, bets, txn>>

\* Betting.tsx 203-219: one row for each selection, result left to its default
Rank(E, e) == Cardinality({x \in E : x <= e})

\* the id of a new row: the ids are handles of the rows, the k-th new row
\* takes the k-th id no row holds
RECURSIVE FreeId(_, _)
FreeId(used, k) ==
    LET m == CHOOSE i \in 1..(Cardinality(used) + 1) : i \notin used /\ \A j \in 1..(i - 1) : j \in used
    IN IF k = 1 THEN m ELSE FreeId(used \cup {m}, k - 1)

UsedIds == BetIds(bets) \cup UNION {BetIds(txn[a].ins) : a \in Actors}

betsToInsert(u) ==
    LET E == SelectedEvents(u.selections)
    IN {[id |-> FreeId(UsedIds, Rank(E, e)), card_id |-> u.cardId, event_id |-> e,
         selected_team_id |-> u.selections[e],
         line |-> Moneyline(e, u.selections[e]), result |-> "null"] : e \in E}

InsertBets(s) ==
    /\ ui[s].pc = "insert_bets"
    /\ IF references(cards, ui[s].cardId)
       THEN /\ LET rows == betsToInsert(ui[s])
               IN /\ Cardinality(UsedIds) + Cardinality(rows) <= MaxBets
                  /\ BeginStmt(s, [NoTxn EXCEPT !.kind = "insert", !.card = ui[s].cardId,
                                                !.ins = rows])
            /\ ui' = [ui EXCEPT ![s].pc = "insert_sent"]
       ELSE /\ ui' = [ui EXCEPT ![s].pc = "idle", ![s].cardId = NoCard]
            /\ UNCHANGED txn
    /\ UNCHANGED <<now, listing, browsers, leagueVars, memberVars, outcome, cards, bets, card_seq>>

InsertDone(s) ==
    /\ ui[s].pc = "insert_sent"
    /\ CommitStmt(s)
    /\ ui' = [ui EXCEPT ![s] = AfterBets(@)]
    /\ UNCHANGED <<now, listing, browsers, leagueVars, memberVars, outcome, card_seq>>

\* Betting.tsx 174, 182, 199, 218, 235-241: a request fails, the mutation throws
RequestFails(s) ==
    /\ ui[s].pc \in {"delete", "insert_card", "insert_bets"}
    /\ ui' = [ui EXCEPT ![s].pc = "idle", ![s].cardId = NoCard]
    /\ UNCHANGED <<now, listing, browsers, leagueVars, memberVars, outcome, cards, bets, card_seq, txn>>

\* ------------------------------------------------------------------------
\* The result feed and the grading of picks (spec.md 4.3, moneyline)
\* ------------------------------------------------------------------------
Tick ==
    /\ now < MaxTime
    /\ now' = now + 1
    /\ UNCHANGED <<listing, browsers, leagueVars, memberVars, outcome, cards, bets, card_seq, txn, ui>>

FinalizeGame(e, w) ==
    /\ e \in upcoming_events
    /\ outcome[e] = "none"
    /\ start_date(e) < now
    /\ outcome' = [outcome EXCEPT ![e] = w]
    /\ UNCHANGED <<now, listing, browsers, leagueVars, memberVars, cards, bets, card_seq, txn, ui>>

\* grading that lets only a pending pick win
Grade_pending(b) ==
    IF b.selected_team_id = outcome[b.event_id] /\ b.result = "null" THEN "true" ELSE "false"

\* spec.md 4.3: WON iff the selection equals the winning side
Grade(b) == IF b.selected_team_id = outcome[b.event_id] THEN "true" ELSE "false"

GradeBet(b) ==
    /\ outcome[b.event_id] # "none"
    /\ BeginStmt(Grader, [NoTxn EXCEPT !.kind = "update", !.card = b.card_id,
                                       !.upd = {b.id}, !.val = Grade(b)])
    /\ UNCHANGED <<now, listing, browsers, leagueVars, memberVars, outcome, cards, bets, card_seq, ui>>

GradeDone ==
    /\ txn[Grader] # NoTxn
    /\ CommitStmt(Grader)
    /\ UNCHANGED <<now, listing, browsers, leagueVars, memberVars, outcome, card_seq, ui>>

\* ------------------------------------------------------------------------
\* Requests an authenticated user sends to the bets table besides those of
\* the page; the row policies decide (migration 20251202185927, 18-37)
\* ------------------------------------------------------------------------
\* "Authenticated users can update bets": FOR UPDATE TO authenticated USING (true)
PolicyUpdateBets(b) == TRUE

DirectUpdateResult(s, b, r) ==
    /\ PolicyUpdateBets(b)
    /\ BeginStmt(s, [NoTxn EXCEPT !.kind = "update", !.card = b.card_id,
                                  !.upd = {b.id}, !.val = r])
    /\ ui[s].pc = "idle"
    /\ ui' = [ui EXCEPT ![s].pc = "direct_sent"]
    /\ UNCHANGED <<now, listing, browsers, leagueVars, memberVars, outcome, cards, bets, card_seq>>

DirectDone(s) ==
    /\ ui[s].pc = "direct_sent"
    /\ CommitStmt(s)
    /\ ui' = [ui EXCEPT ![s].pc = "idle"]
    /\ UNCHANGED <<now, listing, browsers, leagueVars, memberVars, outcome, card_seq>>

\* ------------------------------------------------------------------------
\* Weeks (src/src/lib/weekUtils.ts and Betting.tsx 281-287).  Days are
\* counted from January 1st 2025, a Wednesday; an instant lies inside its day.
\* ------------------------------------------------------------------------
Max(a, b) == IF a >= b THEN a ELSE b

\* Date.getDay(): 0 = Sunday, 2 = Tuesday
getDay(d) == (d + 3) % 7

\* Date.getFullYear() of a day
getFullYearOn(d) == 2025 + (d \div 365)

\* weekUtils.ts 7-14: the Tuesday on or before the day
getTuesdayWeekStart(d) ==
    LET daysSinceTuesday == (getDay(d) + 5) % 7
    IN d - daysSinceTuesday

\* the anchor taken as the Tuesday on or before the creation
firstTuesday_before(c) == c - ((getDay(c) + 5) % 7)

\* weekUtils.ts 25-29: the first Tuesday on or after the creation of the league
firstTuesday(c) ==
    LET daysUntilTuesday == (2 - getDay(c) + 7) % 7
    IN c + daysUntilTuesday

\* date-fns differenceInDays of two starts of day
differenceInDays(a, b) == a - b

\* weekUtils.ts 21-40, at the day d
getLeagueWeekNumber(c, d) ==
    LET currentWeekTuesday == getTuesdayWeekStart(d)
        daysDiff == differenceInDays(currentWeekTuesday, firstTuesday(c))
        weekNumber == (daysDiff \div 7) + 1
    IN Max(1, weekNumber)

\* the start taken with the week number as the offset
getLeagueWeekDateRange_offset(c, w) == firstTuesday(c) + w * 7

\* weekUtils.ts 46-60: the Tuesday that starts week w of the league
getLeagueWeekDateRange(c, w) == firstTuesday(c) + (w - 1) * 7

\* weekUtils.ts 57: the Monday that ends week w, addDays(weekStart, 6)
weekEnd(c, w) == getLeagueWeekDateRange(c, w) + 6

\* weekUtils.ts 77-80
getLeagueSeasonYear(c, w) == getFullYearOn(getLeagueWeekDateRange(c, w))

\* Betting.tsx 281-287, at an instant inside the day d:
\* Math.ceil((now - January 1st of the year of now) / oneWeek)
getWeekNumberOn(d) ==
    LET diff == d - 365 * (d \div 365)
    IN (diff \div 7) + 1

\* a league is created on some day of the first week of the calendar
CreateLeagueOn(d) ==
    /\ leagueCreatedAt = d
    /\ today = d

\* midnight passes
NextDay ==
    /\ today < leagueCreatedAt + MaxDay
    /\ today' = today + 1
    /\ UNCHANGED <<leagueCreatedAt, selectedWeek, weeklyData, allTimeCards, allTimeData, pageVars, memberVars, cards, bets>>

\* ------------------------------------------------------------------------
\* The standings of a league (src/src/components/LeagueLeaderboard.tsx).
\* A query result is the sequence of the rows in the order the database
\* returned them; user names and avatars are left out of the entries.
\* ------------------------------------------------------------------------
Range(q) == {q[i] : i \in 1..Len(q)}

\* the orders in which a query without ORDER BY may return a set of rows
RECURSIVE ReadOrders(_)
ReadOrders(S) ==
    IF S = {} THEN {<<>>}
    ELSE UNION {{Append(q, x) : q \in ReadOrders(S \ {x})} : x \in S}

\* Array.prototype.sort((a, b) => key(b) - key(a)): descending and stable
RECURSIVE sortDesc(_, _)
sortDesc(q, key) ==
    IF q = <<>> THEN <<>>
    ELSE LET front == sortDesc(SubSeq(q, 1, Len(q) - 1), key)
             x == q[Len(q)]
             i == Cardinality({j \in 1..Len(front) : key[front[j]] >= key[x]})
         IN SubSeq(front, 1, i) \o <<x>> \o SubSeq(front, i + 1, Len(front))

\* the elements of a sequence in the order of their first occurrence
RECURSIVE Distinct(_)
Distinct(q) ==
    IF q = <<>> THEN <<>>
    ELSE LET front == Distinct(SubSeq(q, 1, Len(q) - 1))
         IN IF q[Len(q)] \in Range(front) THEN front ELSE Append(front, q[Len(q)])

RECURSIVE Sum(_)
Sum(q) == IF q = <<>> THEN 0 ELSE Head(q) + Sum(Tail(q))

\* LeagueLeaderboard.tsx 63-72, 122-131: wins and losses of a user over the
\* bets of the cards read
userBetStats_else(rows, B, u) ==
    LET mine == {b \in B : \E c \in Range(rows) : c.id = b.card_id /\ c.user_id = u}
    IN [wins |-> Cardinality({b \in mine : b.result = "true"}),
        losses |-> Cardinality({b \in mine : b.result # "true"})]

userBetStats(rows, B, u) ==
    LET mine == {b \in B : \E c \in Range(rows) : c.id = b.card_id /\ c.user_id = u}
    IN [wins |-> Cardinality({b \in mine : b.result = "true"}),
        losses |-> Cardinality({b \in mine : b.result = "false"})]

\* the rate cut off instead of rounded
winRate_floor(wins, losses) ==
    IF wins + losses > 0 THEN (wins * 100) \div (wins + losses) ELSE 0

\* LeagueLeaderboard.tsx 87, 169: Math.round((wins / total) * 100), 0 without total
winRate(wins, losses) ==
    LET total == wins + losses
    IN IF total > 0 THEN (2 * wins * 100 + total) \div (2 * total) ELSE 0

\* ranks that follow the points: equal points, equal rank
withRanks_tied(sorted) ==
    [i \in 1..Len(sorted) |->
        [sorted[i] EXCEPT !.rank =
            1 + Cardinality({j \in 1..Len(sorted) : sorted[j].points > sorted[i].points})]]

\* LeagueLeaderboard.tsx 92, 175: .map((item, index) => ({ ...item, rank: index + 1 }))
withRanks(sorted) == [i \in 1..Len(sorted) |-> [sorted[i] EXCEPT !.rank = i]]

pointsOf(entries) == [e \in Range(entries) |-> e.points]

\* LeagueLeaderboard.tsx 41-46: the cards of the league, week and season
WeeklyCardsQuery(w) ==
    {[id |-> c.id, user_id |-> c.user_id, total_score |-> c.total_score] :
        c \in {x \in cards : /\ x.league_id = LeagueId
                             /\ x.week_number = w
                             /\ x.season_year = getLeagueSeasonYear(leagueCreatedAt, w)}}

\* LeagueLeaderboard.tsx 56, 116: the bets of the cards read
BoardBetsQuery(rows) ==
    {[id |-> b.id, card_id |-> b.card_id, result |-> b.result] :
        b \in {x \in bets : \E c \in Range(rows) : c.id = x.card_id}}

\* LeagueLeaderboard.tsx 37-93
WeeklyLeaderboard(rows, B) ==
    LET entries ==
          [i \in 1..Len(rows) |->
              LET stats == userBetStats(rows, B, rows[i].user_id)
              IN [odile |-> rows[i].user_id, rank |-> 1,
                  wins |-> stats.wins, losses |-> stats.losses,
                  winRate |-> winRate(stats.wins, stats.losses),
                  points |-> rows[i].total_score]]
    IN withRanks(sortDesc(entries, pointsOf(entries)))

\* LeagueLeaderboard.tsx 102-105: all cards of the league
AllTimeCardsQuery ==
    {[id |-> c.id, user_id |-> c.user_id, total_score |-> c.total_score,
      week_number |-> c.week_number, season_year |-> c.season_year] :
        c \in {x \in cards : x.league_id = LeagueId}}

\* LeagueLeaderboard.tsx 136: the key `${card.season_year}-${card.week_number}`
weekKey(c) == <<c.season_year, c.week_number>>

\* LeagueLeaderboard.tsx 133-139: the cards of one key, in read order
weeklyCards(rows, k) == SelectSeq(rows, LAMBDA c : weekKey(c) = k)

\* ranking points that go on falling below 1
rankPoints_nofloor(index) == 10 - index

\* LeagueLeaderboard.tsx 150: Math.max(1, 10 - index)
rankPoints(index) == Max(1, 10 - index)

\* LeagueLeaderboard.tsx 146-154: the finishes of all weeks, one for each
\* card, in the order the loops visit them
RECURSIVE Finishes(_, _)
Finishes(rows, keys) ==
    IF keys = <<>> THEN <<>>
    ELSE LET weekCards == weeklyCards(rows, Head(keys))
             sorted == sortDesc(weekCards, [c \in Range(weekCards) |-> c.total_score])
         IN [i \in 1..Len(sorted) |->
                [user_id |-> sorted[i].user_id, rankPoints |-> rankPoints(i - 1)]]
            \o Finishes(rows, Tail(keys))

\* LeagueLeaderboard.tsx 143-154: the sums kept for a user
userRankingPoints(fin, u) ==
    Sum([i \in 1..Len(fin) |-> IF fin[i].user_id = u THEN fin[i].rankPoints ELSE 0])

userWeeksPlayed(fin, u) == Cardinality({i \in 1..Len(fin) : fin[i].user_id = u})

\* LeagueLeaderboard.tsx 100-176
AllTimeLeaderboard(rows, B) ==
    LET keys == Distinct([i \in 1..Len(rows) |-> weekKey(rows[i])])
        fin == Finishes(rows, keys)
        users == Distinct([i \in 1..Len(fin) |-> fin[i].user_id])
        entries ==
          [i \in 1..Len(users) |->
              LET stats == userBetStats(rows, B, users[i])
              IN [odile |-> users[i], rank |-> 1,
                  wins |-> stats.wins, losses |-> stats.losses,
                  winRate |-> winRate(stats.wins, stats.losses),
                  points |-> userRankingPoints(fin, users[i]),
                  weeksPlayed |-> userWeeksPlayed(fin, users[i])]]
    IN withRanks(sortDesc(entries, pointsOf(entries)))

\* LeagueLeaderboard.tsx 180-181: the week shown moves within 1..currentWeek
handlePrevWeek ==
    /\ selectedWeek' = Max(1, selectedWeek - 1)
    /\ selectedWeek' # selectedWeek
    /\ weeklyData' = <<>>
    /\ UNCHANGED <<today, leagueCreatedAt, allTimeCards, allTimeData, pageVars, memberVars, cards, bets>>

handleNextWeek ==
    /\ selectedWeek' = (IF selectedWeek + 1 <= getLeagueWeekNumber(leagueCreatedAt, today)
                        THEN selectedWeek + 1 ELSE selectedWeek)
    /\ selectedWeek' # selectedWeek
    /\ weeklyData' = <<>>
    /\ UNCHANGED <<today, leagueCreatedAt, allTimeCards, allTimeData, pageVars, memberVars, cards, bets>>

\* LeagueLeaderboard.tsx 35-95: the weekly query runs; rows is the order in
\* which the cards came back
LoadWeekly(rows) ==
    /\ Range(rows) = WeeklyCardsQuery(selectedWeek)
    /\ weeklyData' = WeeklyLeaderboard(rows, BoardBetsQuery(rows))
    /\ UNCHANGED <<today, leagueCreatedAt, selectedWeek, allTimeCards, allTimeData, pageVars, memberVars, cards, bets>>

\* LeagueLeaderboard.tsx 98-178: the all-time query runs
LoadAllTime(rows) ==
    /\ Range(rows) = AllTimeCardsQuery
    /\ allTimeCards' = rows
    /\ allTimeData' = AllTimeLeaderboard(rows, BoardBetsQuery(rows))
    /\ UNCHANGED <<today, leagueCreatedAt, selectedWeek, weeklyData, pageVars, memberVars, cards, bets>>

\* ------------------------------------------------------------------------
\* Leagues and their members: the tables, their row policies and foreign
\* keys, and the requests of the join pages and of the league settings.
\* ------------------------------------------------------------------------
IdleClient == [pc |-> "idle", target |-> "none"]

\* part_000 47-64
check_league_member_role(M, l, u, roles) ==
    \E m \in M : m.league_id = l /\ m.user_id = u /\ m.role \in roles

\* part_000 68-84
is_league_member(M, l, u) == \E m \in M : m.league_id = l /\ m.user_id = u

\* part_000 113-118: the rows of league_members a user may read
MembersVisibleTo(u) ==
    {m \in league_members : is_league_member(league_members, m.league_id, u)}

\* part_000 96-101: the rows of league_members a user may update
MembersUpdatableBy(u) ==
    {m \in league_members :
        check_league_member_role(league_members, m.league_id, u, {"owner", "admin"})}

\* part_000 104-110: the rows of league_members a user may delete
MembersDeletableBy(u) ==
    {m \in league_members :
        \/ m.user_id = u
        \/ check_league_member_role(league_members, m.league_id, u, {"owner", "admin"})}

\* select("*", { count: "exact", head: true }).eq("league_id", l), as user u
MemberCount(u, l) == Cardinality({m \in MembersVisibleTo(u) : m.league_id = l})

\* JoinLeague.tsx 71, JoinLeagueDialog.tsx 193: count && count >= max_members
LeagueFull(count, l) == count # 0 /\ count >= l.max_members

\* the foreign keys of the migration 20251204215941: the rows of a deleted
\* parent row are deleted with it
league_members_league_id_fkey(M, L) == {m \in M : references(L, m.league_id)}

cards_league_id_fkey(C, L) == {c \in C : references(L, c.league_id)}

\* the bets of a deleted card stay
bets_card_id_fkey_restrict(B, C) == B

bets_card_id_fkey(B, C) == {b \in B : references(C, b.card_id)}

ClientStep(u, pc, target) == clients' = [clients EXCEPT ![u] = [pc |-> pc, target |-> target]]

\* JoinLeague.tsx 20-82: the invite link; the league is found by its code,
\* a member is sent to the league, a full league is refused
JoinByLink(u) ==
    /\ clients[u].pc = "idle"
    /\ \E l \in leagues :
          /\ l.is_private
          /\ {m \in MembersVisibleTo(u) : m.league_id = l.id /\ m.user_id = u} = {}
          /\ ~LeagueFull(MemberCount(u, l.id), l)
          /\ ClientStep(u, "join_link", l.id)
    /\ UNCHANGED <<leagues, league_members, leagueVars, pageVars, cards, bets>>

\* JoinLeagueDialog.tsx 160-201: the invite code typed into the dialog
onSubmitInviteCode(u) ==
    /\ clients[u].pc = "idle"
    /\ \E l \in leagues :
          /\ l.is_private
          /\ ~is_league_member(league_members, l.id, u)
          /\ ~LeagueFull(MemberCount(u, l.id), l)
          /\ ClientStep(u, "join_code", l.id)
    /\ UNCHANGED <<leagues, league_members, leagueVars, pageVars, cards, bets>>

\* JoinLeagueDialog.tsx 57-117, 303-306: the list of public leagues the user
\* is not in, with the Join button disabled for a league shown as full
joinLeague(u) ==
    /\ clients[u].pc = "idle"
    /\ \E l \in leagues :
          /\ ~l.is_private
          /\ {m \in MembersVisibleTo(u) : m.league_id = l.id /\ m.user_id = u} = {}
          /\ ~(MemberCount(u, l.id) >= l.max_members)
          /\ ClientStep(u, "join_list", l.id)
    /\ UNCHANGED <<leagues, league_members, leagueVars, pageVars, cards, bets>>

\* JoinLeague.tsx 84-92, JoinLeagueDialog.tsx 118-126, 203-211: the insert
JoinInsert(u) ==
    /\ clients[u].pc \in {"join_link", "join_code", "join_list"}
    /\ league_members' =
          IF references(leagues, clients[u].target)
          THEN league_members \cup
                  {[league_id |-> clients[u].target, user_id |-> u, role |-> "member"]}
          ELSE league_members
    /\ ClientStep(u, "idle", "none")
    /\ UNCHANGED <<leagues, leagueVars, pageVars, cards, bets>>

\* LeagueDetail.tsx 268-296, 546: a member who is not the owner leaves
handleLeaveLeague(u) ==
    /\ clients[u].pc = "idle"
    /\ \E m \in league_members :
          /\ m.user_id = u /\ m.role # "owner"
          /\ league_members' =
                league_members \ {x \in MembersDeletableBy(u) :
                                     x.league_id = m.league_id /\ x.user_id = u}
    /\ UNCHANGED <<leagues, clients, leagueVars, pageVars, cards, bets>>

\* LeagueDetail.tsx 301, 355: the settings dialog is shown to the owner
isOwner(u, l) == check_league_member_role(league_members, l, u, {"owner"})

\* part_003 124-135: the owner saves the settings form, here with the
\* privacy switch set and the other fields as they were loaded
updateLeague(u, private) ==
    /\ clients[u].pc = "idle"
    /\ \E l \in leagues :
          /\ isOwner(u, l.id)
          /\ leagues' = (leagues \ {l}) \cup {[l EXCEPT !.is_private = private]}
    /\ UNCHANGED <<league_members, clients, leagueVars, pageVars, cards, bets>>

\* part_003 97-103, 370, 405: the owner picks a member who is not an owner
TransferStart(u, n) ==
    /\ clients[u].pc = "idle"
    /\ \E l \in leagues :
          /\ isOwner(u, l.id)
          /\ \E m \in MembersVisibleTo(u) :
                m.league_id = l.id /\ m.user_id = n /\ m.role # "owner"
    /\ ClientStep(u, "set_owner", n)
    /\ UNCHANGED <<leagues, league_members, leagueVars, pageVars, cards, bets>>

\* part_003 161-168: update the new owner to the role owner
SetNewOwner(u) ==
    /\ clients[u].pc = "set_owner"
    /\ league_members' =
          {IF m \in MembersUpdatableBy(u) /\ m.league_id = LeagueId
              /\ m.user_id = clients[u].target
           THEN [m EXCEPT !.role = "owner"] ELSE m : m \in league_members}
    /\ ClientStep(u, "set_member", clients[u].target)
    /\ UNCHANGED <<leagues, leagueVars, pageVars, cards, bets>>

\* part_003 170-177: update the current owner to the role member
SetOldOwner(u) ==
    /\ clients[u].pc = "set_member"
    /\ league_members' =
          {IF m \in MembersUpdatableBy(u) /\ m.league_id = LeagueId /\ m.user_id = u
           THEN [m EXCEPT !.role = "member"] ELSE m : m \in league_members}
    /\ ClientStep(u, "set_created_by", clients[u].target)
    /\ UNCHANGED <<leagues, leagueVars, pageVars, cards, bets>>

\* part_003 179-185: update created_by of the league
SetCreatedBy(u) ==
    /\ clients[u].pc = "set_created_by"
    /\ leagues' = {IF l.id = LeagueId THEN [l EXCEPT !.created_by = clients[u].target] ELSE l :
                      l \in leagues}
    /\ ClientStep(u, "idle", "none")
    /\ UNCHANGED <<league_members, leagueVars, pageVars, cards, bets>>

\* part_003 168, 177, 185, 198-204: an update comes back with an error
TransferFails(u) ==
    /\ clients[u].pc \in {"set_owner", "set_member", "set_created_by"}
    /\ ClientStep(u, "idle", "none")
    /\ UNCHANGED <<leagues, league_members, leagueVars, pageVars, cards, bets>>

\* part_003 209-215: the owner deletes the members of the league
DeleteMembers(u) ==
    /\ clients[u].pc = "idle"
    /\ isOwner(u, LeagueId)
    /\ league_members' =
          league_members \ {m \in MembersDeletableBy(u) : m.league_id = LeagueId}
    /\ ClientStep(u, "delete_league", LeagueId)
    /\ UNCHANGED <<leagues, leagueVars, pageVars, cards, bets>>

\* part_003 217-223: delete the league; its members, its cards and their
\* bets go with it
DeleteLeagueRow(u) ==
    /\ clients[u].pc = "delete_league"
    /\ leagues' = {l \in leagues : l.id # clients[u].target}
    /\ league_members' = league_members_league_id_fkey(league_members, leagues')
    /\ cards' = cards_league_id_fkey(cards, leagues')
    /\ bets' = bets_card_id_fkey(bets, cards')
    /\ ClientStep(u, "idle", "none")
    /\ UNCHANGED <<leagueVars, pageVars>>

\* part_003 215, 223: a delete comes back with an error
DeleteFails(u) ==
    /\ clients[u].pc = "delete_league"
    /\ ClientStep(u, "idle", "none")
    /\ UNCHANGED <<leagues, league_members, leagueVars, pageVars, cards, bets>>

\* WeekNavigation.tsx 152-163 and the trigger that makes the creator the
\* owner: the league as its creation leaves it
InitMembers(private) ==
    /\ leagues = {[id |-> LeagueId, created_by |-> UserId, max_members |-> MaxMembers,
                   is_private |-> private]}
    /\ league_members = {[league_id |-> LeagueId, user_id |-> UserId, role |-> "owner"]}
    /\ clients = [u \in Users |-> IdleClient]

\* ------------------------------------------------------------------------
\* Tables as submissions and grading leave them: for each member and week
\* either no card or a card with so many won, lost and pending picks; the
\* total_score of a card is what update_card_score last wrote.
\* ------------------------------------------------------------------------
BoardMembers == {1, 2}
BoardWeeks == {1, 2}

NoEntry == [card |-> FALSE, won |-> 0, lost |-> 0, pending |-> 0]

SlotEntries(n) ==
    {NoEntry} \cup
    {t \in [card : {TRUE}, won : 0..n, lost : 0..n, pending : 0..n] :
        t.won + t.lost + t.pending <= n /\ t.won + t.lost + t.pending <= MAX_PICKS}

RECURSIVE PicksOver(_, _)
PicksOver(f, S) ==
    IF S = {} THEN 0
    ELSE LET x == CHOOSE y \in S : TRUE
         IN f[x].won + f[x].lost + f[x].pending + PicksOver(f, S \ {x})

PicksIn(f) == PicksOver(f, DOMAIN f)

\* the id of the card of member u in week w
SlotId(M, u, w) == (w - 1) * Cardinality(M) + u

StoredBets(M, f) ==
    UNION {LET t == f[x]
               cid == SlotId(M, x[1], x[2])
           IN {[id |-> (cid - 1) * MAX_PICKS + k, card_id |-> cid, event_id |-> k,
                selected_team_id |-> "home", line |-> Moneyline(k, "home"),
                result |-> IF k <= t.won THEN "true"
                           ELSE IF k <= t.won + t.lost THEN "false" ELSE "null"] :
                  k \in 1..(t.won + t.lost + t.pending)} : x \in DOMAIN f}

StoredCards(M, f) ==
    {[id |-> SlotId(M, x[1], x[2]), user_id |-> x[1], league_id |-> LeagueId,
      week_number |-> x[2], season_year |-> getFullYear(now),
      total_score |-> WonCount(StoredBets(M, f), SlotId(M, x[1], x[2]))] :
        x \in {y \in DOMAIN f : f[y].card}}

\* ------------------------------------------------------------------------
\* Specifications
\* ------------------------------------------------------------------------
InitPage(E, B) ==
    /\ now = 0
    /\ listing = E
    /\ browsers = B
    /\ outcome = [e \in AllEvents |-> "none"]
    /\ txn = [a \in Actors |-> NoTxn]
    /\ ui = [s \in Sessions |-> ClosedUi]

\* the league page before any query of it has run
InitBoard ==
    /\ selectedWeek = getLeagueWeekNumber(leagueCreatedAt, today)
    /\ weeklyData = <<>>
    /\ allTimeCards = <<>>
    /\ allTimeData = <<>>

InitTables ==
    /\ cards = {}
    /\ bets = {}
    /\ card_seq = 0

InitWith(E, B) ==
    /\ InitPage(E, B)
    /\ InitMembers(FALSE)
    /\ InitTables
    /\ CreateLeagueOn(0)
    /\ InitBoard

\* what a session does on the page, and the requests of its mutation
PageStepOn(s, S) ==
    \/ Open(s)
    \/ Refetch(s)
    \/ handleStartEditing(s)
    \/ \E e \in AllEvents, side \in S : handleSelectTeam(s, e, side)
    \/ Submit(s)
    \/ DeleteBets(s)
    \/ InsertCard(s)
    \/ InsertBets(s)
    \/ RequestFails(s)

PageStep(s) == PageStepOn(s, Sides)

\* Interleaved: the requests of a session and of the grader interleave.
Init == InitWith(1..NumEvents, {"s1"})

Next ==
    \/ Tick
    \/ \E e \in AllEvents, w \in Sides : FinalizeGame(e, w)
    \/ \E b \in bets : GradeBet(b)
    \/ GradeDone
    \/ \E s \in Sessions : PageStep(s)
    \/ \E s \in Sessions : DeleteDone(s)
    \/ \E s \in Sessions : InsertDone(s)

Spec == Init /\ [][Next]_vars

\* Sequential: a statement commits before anything else happens, and one
\* mutation ends before the next one starts.  In the scoring specification
\* the user picks the home side of a game or takes the pick back; the game
\* may end either way.
NoStmt == \A a \in Actors : txn[a] = NoTxn
OneMutation(s) == \A o \in Sessions \ {s} : ui[o].pc = "idle"

InitScore == InitWith(1..NumEventsScore, {"s1"})

NextScore ==
    \/ NoStmt /\ Tick
    \/ NoStmt /\ \E e \in AllEvents, w \in Sides : FinalizeGame(e, w)
    \/ NoStmt /\ \E b \in bets : GradeBet(b)
    \/ GradeDone
    \/ \E s \in Sessions : NoStmt /\ OneMutation(s) /\ PageStepOn(s, {"home"})
    \/ \E s \in Sessions : DeleteDone(s)
    \/ \E s \in Sessions : InsertDone(s)

SpecScore == InitScore /\ [][NextScore]_vars

\* Ledger: the page alone, sequential, with enough games to fill a card;
\* the user picks the home side of a game or takes the pick back.
InitLedger == InitWith(1..NumEventsLedger, {"s1"})

NextLedger ==
    \/ NoStmt /\ Tick
    \/ \E s \in Sessions : NoStmt /\ OneMutation(s) /\ PageStepOn(s, {"home"})
    \/ \E s \in Sessions : DeleteDone(s)
    \/ \E s \in Sessions : InsertDone(s)

SpecLedger == InitLedger /\ [][NextLedger]_vars

\* Two sessions of the user whose requests interleave; no refetch, no
\* failing request and no grading; the user picks the home side of a game
\* or takes the pick back.
EditStep(s) ==
    \/ Open(s)
    \/ handleStartEditing(s)
    \/ \E e \in AllEvents : handleSelectTeam(s, e, "home")
    \/ Submit(s)
    \/ DeleteBets(s)
    \/ InsertCard(s)
    \/ InsertBets(s)

InitTwo == InitWith(1..NumEventsTwo, Sessions)

NextTwo ==
    \/ Tick
    \/ \E s \in Sessions : EditStep(s)
    \/ \E s \in Sessions : DeleteDone(s)
    \/ \E s \in Sessions : InsertDone(s)

SpecTwo == InitTwo /\ [][NextTwo]_vars

\* Race: the two sessions again, with a game that starts early and games
\* that start late.
InitRace == InitWith({1} \cup {EarlyEvents + k : k \in 1..(NumEventsRace - 1)}, Sessions)

SpecRace == InitRace /\ [][NextTwo]_vars

\* Two editors: the user's card of the week holds a pick on each early game,
\* these games have started, the late games are open, and both sessions of
\* the user work on the card.
InitOverfill ==
    /\ now = MaxTime - 1
    /\ listing = 1..(EarlyEvents + NumEventsOverfill)
    /\ browsers = Sessions
    /\ outcome = [e \in AllEvents |-> "none"]
    /\ txn = [a \in Actors |-> NoTxn]
    /\ ui = [s \in Sessions |-> ClosedUi]
    /\ cards = {NewCard(1, 0)}
    /\ bets = {[id |-> e, card_id |-> 1, event_id |-> e, selected_team_id |-> "home",
                line |-> Moneyline(e, "home"), result |-> "null"] : e \in 1..EarlyEvents}
    /\ card_seq = 1
    /\ InitMembers(FALSE)
    /\ CreateLeagueOn(0)
    /\ InitBoard

\* the steps of a session that edits the card it found
EditCardStep(s) ==
    \/ Open(s)
    \/ handleStartEditing(s)
    \/ \E e \in AllEvents : handleSelectTeam(s, e, "home")
    \/ Submit(s)
    \/ DeleteBets(s)
    \/ InsertBets(s)

NextOverfill ==
    \/ \E s \in Sessions : EditCardStep(s)
    \/ \E s \in Sessions : DeleteDone(s)
    \/ \E s \in Sessions : InsertDone(s)

SpecOverfill == InitOverfill /\ [][NextOverfill]_vars

\* Join: the users join a league by its invite link or code or from the
\* public list, members leave, and the owner switches the league between
\* private and public.
InitJoin ==
    /\ InitPage({}, {})
    /\ InitTables
    /\ \E private \in BOOLEAN : InitMembers(private)
    /\ CreateLeagueOn(0)
    /\ InitBoard

NextJoin ==
    \/ \E u \in Users : JoinByLink(u)
    \/ \E u \in Users : onSubmitInviteCode(u)
    \/ \E u \in Users : joinLeague(u)
    \/ \E u \in Users : JoinInsert(u)
    \/ \E u \in Users : handleLeaveLeague(u)
    \/ \E u \in Users, private \in BOOLEAN : updateLeague(u, private)

SpecJoin == InitJoin /\ [][NextJoin]_vars

\* Transfer: users join the public league and leave it, and an owner hands
\* the league over to a member.
InitTransfer ==
    /\ InitPage({}, {})
    /\ InitTables
    /\ InitMembers(FALSE)
    /\ CreateLeagueOn(0)
    /\ InitBoard

NextTransfer ==
    \/ \E u \in Users : joinLeague(u)
    \/ \E u \in Users : JoinInsert(u)
    \/ \E u \in Users : handleLeaveLeague(u)
    \/ \E u \in Users, n \in Users : TransferStart(u, n)
    \/ \E u \in Users : SetNewOwner(u)
    \/ \E u \in Users : SetOldOwner(u)
    \/ \E u \in Users : SetCreatedBy(u)
    \/ \E u \in Users : TransferFails(u)

SpecTransfer == InitTransfer /\ [][NextTransfer]_vars

\* Cascade: the owner submits and edits a card while the settings dialog of
\* another tab deletes the league; members join meanwhile.
InitCascade ==
    /\ InitPage(1..NumEventsPolicies, {"s1"})
    /\ InitTables
    /\ InitMembers(FALSE)
    /\ CreateLeagueOn(0)
    /\ InitBoard

NextCascade ==
    \/ NoStmt /\ Tick
    \/ \E s \in Sessions : NoStmt /\ OneMutation(s) /\ PageStepOn(s, {"home"})
    \/ \E s \in Sessions : DeleteDone(s)
    \/ \E s \in Sessions : InsertDone(s)
    \/ \E u \in Users : NoStmt /\ joinLeague(u)
    \/ \E u \in Users : NoStmt /\ JoinInsert(u)
    \/ NoStmt /\ DeleteMembers(UserId)
    \/ NoStmt /\ DeleteLeagueRow(UserId)
    \/ NoStmt /\ DeleteFails(UserId)

SpecCascade == InitCascade /\ [][NextCascade]_vars

\* Policies: the sequential scoring specification, and the user also sends
\* the update of a bet the row policy of the bets table lets through.
Results == {"null", "true", "false"}

InitPolicies == InitWith(1..NumEventsPolicies, {"s1"})

NextPolicies ==
    \/ NoStmt /\ Tick
    \/ NoStmt /\ \E e \in AllEvents, w \in Sides : FinalizeGame(e, w)
    \/ NoStmt /\ \E b \in bets : GradeBet(b)
    \/ GradeDone
    \/ \E s \in Sessions : NoStmt /\ OneMutation(s) /\ PageStep(s)
    \/ \E s \in Sessions : DeleteDone(s)
    \/ \E s \in Sessions : InsertDone(s)
    \/ \E s \in browsers, b \in bets, r \in Results : NoStmt /\ DirectUpdateResult(s, b, r)
    \/ \E s \in Sessions : DirectDone(s)

SpecPolicies == InitPolicies /\ [][NextPolicies]_vars

\* Calendar: a league is created on one of seven days in a row and the days
\* pass.
InitCalendar ==
    /\ InitPage({}, {})
    /\ InitMembers(FALSE)
    /\ InitTables
    /\ \E d \in 0..6 : CreateLeagueOn(d)
    /\ InitBoard

NextCalendar == NextDay

SpecCalendar == InitCalendar /\ [][NextCalendar]_vars

\* New Year: a league is created on one of the seven days from Wednesday
\* December 17th 2025 on and the days pass into January 2026.
YearEnd == 350

InitNewYear ==
    /\ InitPage({}, {})
    /\ InitMembers(FALSE)
    /\ InitTables
    /\ \E d \in YearEnd..(YearEnd + 6) : CreateLeagueOn(d)
    /\ InitBoard

NextNewYear == NextDay

SpecNewYear == InitNewYear /\ [][NextNewYear]_vars

\* the league is in the last of its weeks
InitLeague(W) ==
    /\ InitMembers(FALSE)
    /\ leagueCreatedAt = 0
    /\ today = getLeagueWeekDateRange(0, Cardinality(W))
    /\ InitBoard

\* Standings: the league page over every filling of the tables for two
\* members and two weeks; the queries return the rows in any order.
InitStandings ==
    /\ InitPage({}, {})
    /\ InitLeague(BoardWeeks)
    /\ \E f \in [BoardMembers \X BoardWeeks -> SlotEntries(MaxBoardPicks)] :
          /\ PicksIn(f) <= MaxBoardPicks
          /\ cards = StoredCards(BoardMembers, f)
          /\ bets = StoredBets(BoardMembers, f)
          /\ card_seq = Cardinality(DOMAIN f)

NextStandings ==
    \/ handlePrevWeek
    \/ handleNextWeek
    \/ \E rows \in ReadOrders(WeeklyCardsQuery(selectedWeek)) : LoadWeekly(rows)
    \/ /\ allTimeCards = <<>>
       /\ \E rows \in ReadOrders(AllTimeCardsQuery) : LoadAllTime(rows)

SpecStandings == InitStandings /\ [][NextStandings]_vars

\* Season: a league of many members; in each week the first n members have
\* a card, with scores that are level, rise or fall with the member's number;
\* the all-time query returns the cards by id, up or down.
Patterns == {"level", "rising", "falling"}

PatternScore(p, u) ==
    IF p = "level" THEN 1
    ELSE IF p = "rising" THEN (u * MAX_PICKS) \div NumPlayers
    ELSE ((NumPlayers - u) * MAX_PICKS) \div NumPlayers

SeasonFill(n, p) ==
    [x \in (1..NumPlayers) \X BoardWeeks |->
        IF x[1] <= n[x[2]]
        THEN [card |-> TRUE, won |-> PatternScore(p[x[2]], x[1]), lost |-> 0, pending |-> 0]
        ELSE NoEntry]

Reverse(q) == [i \in 1..Len(q) |-> q[Len(q) + 1 - i]]

RECURSIVE ById(_)
ById(S) ==
    IF S = {} THEN <<>>
    ELSE LET m == CHOOSE c \in S : \A d \in S : c.id <= d.id
         IN <<m>> \o ById(S \ {m})

InitSeason ==
    /\ InitPage({}, {})
    /\ InitLeague(BoardWeeks)
    /\ \E n \in [BoardWeeks -> 0..NumPlayers], p \in [BoardWeeks -> Patterns] :
          /\ cards = StoredCards(1..NumPlayers, SeasonFill(n, p))
          /\ bets = StoredBets(1..NumPlayers, SeasonFill(n, p))
          /\ card_seq = Cardinality(DOMAIN SeasonFill(n, p))

NextSeason ==
    \/ LoadAllTime(ById(AllTimeCardsQuery))
    \/ LoadAllTime(Reverse(ById(AllTimeCardsQuery)))

SpecSeason == InitSeason /\ [][NextSeason]_vars

\* ------------------------------------------------------------------------
\* Properties
\* ------------------------------------------------------------------------
\* a game that started before the current tick
Started(e) == start_date(e) < now

\* the row of a bet as the page reads it
Seen(b) == [id |-> b.id, event_id |-> b.event_id, selected_team_id |-> b.selected_team_id]

\* the mutation of session s writes to the bets table
Writing(s) == ui[s].pc \in {"delete", "delete_sent", "insert_card", "insert_bets", "insert_sent"}

\* session s ends a statement in this step
Commits(s) == ui[s].pc \in {"delete_sent", "insert_sent"} /\ ui'[s].pc # ui[s].pc

\* C1: under sequential submissions and edits no card ever holds more than
\* MAX_PICKS picks, and no mutation whose locked picks plus selections
\* exceed MAX_PICKS gets to write (it is rejected before its first request).
C1_Capacity ==
    /\ \A c \in cards : Cardinality(BetsOfCard(bets, c.id)) <= MAX_PICKS
    /\ \A s \in Sessions : Writing(s) => totalPickCount(ui[s]) <= MAX_PICKS

\* C1 witness: an edit filled a card to MAX_PICKS picks, some of them on
\* games that have started
C1_Witness ==
    \E c \in cards :
        /\ Cardinality(BetsOfCard(bets, c.id)) = MAX_PICKS
        /\ \E b \in BetsOfCard(bets, c.id) : Started(b.event_id)
        /\ \E b \in BetsOfCard(bets, c.id) : ~Started(b.event_id)

\* C2: once the game of a stored pick has started, no later step deletes the
\* pick or changes its selection or line (stated for games that started
\* before the current tick, the weaker reading of "at or after its start").
C2_StartedPickKept ==
    [][\A b \in bets : Started(b.event_id) =>
          \E n \in bets' : /\ n.id = b.id /\ n.card_id = b.card_id
                           /\ n.event_id = b.event_id
                           /\ n.selected_team_id = b.selected_team_id
                           /\ n.line = b.line]_vars

\* C3: in an edit the delete leaves every stored pick the page classified
\* as locked as it is and removes the picks classified as editable and no
\* pick on a game outside the open games of the page; the insert adds
\* exactly the submitted selections and touches no stored pick.
C3_DeleteStep(s) ==
    (ui[s].pc = "delete_sent" /\ ui'[s].pc # "delete_sent") =>
        LET u == ui[s]
            mine == BetsOfCard(bets, u.existingCard)
        IN /\ \A b \in mine : Seen(b) \in lockedBets(u) => b \in bets'
           /\ \A b \in mine : (Seen(b) \in u.existingBets /\ b.event_id \in u.events)
                                 => b \notin bets'
           /\ \A b \in bets \ bets' : b.event_id \in u.events
           /\ bets' \subseteq bets

C3_InsertStep(s) ==
    (ui[s].pc = "insert_sent" /\ ui'[s].pc # "insert_sent") =>
        LET u == ui[s]
            new == bets' \ bets
        IN /\ bets \subseteq bets'
           /\ \A b \in new : /\ b.card_id = u.cardId
                             /\ u.selections[b.event_id] = b.selected_team_id
                             /\ b.line = Moneyline(b.event_id, b.selected_team_id)
           /\ \A e \in SelectedEvents(u.selections) :
                 Cardinality({b \in new : b.event_id = e}) = 1

C3_EditFrame == [][\A s \in Sessions : C3_DeleteStep(s) /\ C3_InsertStep(s)]_vars

\* C4: after any sequence of inserts, result updates and deletes of bets,
\* the total_score of every card is the number of its bets with result true.
C4_ScoreIsWonCount ==
    NoStmt => \A c \in cards : c.total_score = WonCount(bets, c.id)

\* C4 witness: a card with a won and a lost bet and its score written
C4_Witness ==
    /\ NoStmt
    /\ \E c \in cards :
          /\ c.total_score >= 1
          /\ \E b \in BetsOfCard(bets, c.id) : b.result = "false"

\* C5: when an edit of a card and the grading of its bets have all
\* completed, the total_score of the card is the number of its won bets.
C5_ScoreAfterRace ==
    (NoStmt /\ \A s \in Sessions : ui[s].pc = "idle") =>
        \A c \in cards : WonCount(bets, c.id) = c.total_score

\* C6: a write of a session makes, changes or deletes no pick on a game that
\* was open when the session read the games and has started since.
C6_StaleWriteRejected ==
    [][\A s \in Sessions : Commits(s) =>
          \A e \in ui[s].events : Started(e) =>
              {b \in bets : b.event_id = e} = {b \in bets' : b.event_id = e}]_vars

\* C7: a pick is stored with result null, and its result changes only in a
\* step in which a statement of the grader commits.
GraderCommits == txn[Grader] # NoTxn /\ txn'[Grader] = NoTxn

C7_OnlyGraderSetsResult ==
    [][\A n \in bets' :
          /\ (n.id \notin BetIds(bets)) => n.result = "null"
          /\ (\E b \in bets : b.id = n.id /\ b.result # n.result) => GraderCommits]_vars

\* C8: no two rows of cards have the same user, league, week and year.
SameTuple(c, d) ==
    /\ c.user_id = d.user_id /\ c.league_id = d.league_id
    /\ c.week_number = d.week_number /\ c.season_year = d.season_year

C8_OneCardPerTuple == \A c \in cards, d \in cards : SameTuple(c, d) => c.id = d.id

\* C8 witness: two submissions for one tuple run together; one has stored
\* its card, the other is at its insert of a card for the same tuple
C8_Witness ==
    \E s \in Sessions, o \in Sessions :
        /\ s # o
        /\ ui[s].pc = "insert_card"
        /\ ui[o].pc \in {"insert_bets", "insert_sent"}
        /\ \E c \in cards : c.id = ui[o].cardId /\ SameTuple(c, NewCard(0, now))

\* C9: a statement that leaves the bets as they are (grading a bet again
\* with the result it has) leaves every total_score as it is.
StmtCommits == \E a \in Actors : txn[a] # NoTxn /\ txn'[a] = NoTxn

C9_RecomputeIdempotent == [][(StmtCommits /\ bets' = bets) => cards' = cards]_vars

\* C9 witness: a won bet that counts in the score is being graded again
C9_Witness ==
    \E b \in bets :
        /\ b.id \in txn[Grader].upd
        /\ b.result = "true" /\ txn[Grader].val = "true"
        /\ \E c \in cards : c.id = b.card_id /\ c.total_score >= 1

C16_OneWeekFunction ==
    /\ getWeekNumberOn(today) = getLeagueWeekNumber(leagueCreatedAt, today)
    /\ getFullYearOn(today) =
         getLeagueSeasonYear(leagueCreatedAt, getLeagueWeekNumber(leagueCreatedAt, today))

\* C17: the current week of a league is the number of whole 7-day intervals
\* elapsed since the anchor (the first Tuesday on or after the creation) plus
\* 1, and 1 before the anchor; it grows by 1 exactly at the Tuesdays after
\* the anchor.
Anchor == CHOOSE a \in leagueCreatedAt..(leagueCreatedAt + 6) : getDay(a) = 2

C17_LeagueWeek ==
    /\ getLeagueWeekNumber(leagueCreatedAt, today) >= 1
    /\ getLeagueWeekNumber(leagueCreatedAt, today) =
         IF today < Anchor THEN 1 ELSE ((today - Anchor) \div 7) + 1
    /\ today > leagueCreatedAt =>
         getLeagueWeekNumber(leagueCreatedAt, today) =
            getLeagueWeekNumber(leagueCreatedAt, today - 1)
              + (IF getDay(today) = 2 /\ today > Anchor THEN 1 ELSE 0)

\* C17 witness: a league created after a Tuesday is in its third week
C17_Witness ==
    /\ getDay(leagueCreatedAt) = 3
    /\ today = Anchor + 14
    /\ getLeagueWeekNumber(leagueCreatedAt, today) = 3

\* C18: a game is open on the page exactly when the time of the read is
\* before its scheduled start; a game that starts at the time of the read is
\* locked.  Stated for every step in which a session reads the open games.
ReadsEvents(s) == ui'[s].open /\ (~ui[s].open \/ ui'[s].events # ui[s].events)

C18_LockedFromStart ==
    [][\A s \in Sessions : ReadsEvents(s) =>
          ui'[s].events = {e \in upcoming_events : now' < start_date(e)}]_vars

ClickOnly(s) == ui'[s] # ui[s] /\ ui'[s] = [ui[s] EXCEPT !.selections = ui'[s].selections]

C20_DuplicateRejected ==
    [][\A s \in Sessions : ClickOnly(s) =>
          \A e \in AllEvents :
              (ui[s].selections[e] # "none" /\ ui'[s].selections[e] # "none")
                  => ui'[s].selections[e] = ui[s].selections[e]]_vars

\* ---- Leaderboards ----
Ranks(data) == {data[i].rank : i \in 1..Len(data)}

Members(rows) == {c.user_id : c \in Range(rows)}

RanksOnce(data) ==
    /\ Ranks(data) = 1..Len(data)
    /\ \A i, j \in 1..Len(data) : data[i].rank = data[j].rank => i = j

Loaded == allTimeCards # <<>>

\* C11: a leaderboard of N members gives the ranks 1..N, each once, also
\* when members have the same points; the weekly board has one entry for each
\* card of the selected week, the all-time board one for each member with a card.
C11_RanksOnce ==
    /\ RanksOnce(weeklyData)
    /\ weeklyData # <<>> => Len(weeklyData) = Cardinality(WeeklyCardsQuery(selectedWeek))
    /\ RanksOnce(allTimeData)
    /\ Len(allTimeData) = Cardinality(Members(allTimeCards))

Tied(data) == \E i, j \in 1..Len(data) : i # j /\ data[i].points = data[j].points

C11_Witness == Tied(weeklyData) /\ Tied(allTimeData)

\* C12 (as stated): members with equal points stand in ascending order of
\* their user id, whatever order the cards were read in.
C12_TiesByUserId ==
    /\ \A i, j \in 1..Len(weeklyData) :
          (i < j /\ weeklyData[i].points = weeklyData[j].points)
              => weeklyData[i].odile < weeklyData[j].odile
    /\ \A i, j \in 1..Len(allTimeData) :
          (i < j /\ allTimeData[i].points = allTimeData[j].points)
              => allTimeData[i].odile < allTimeData[j].odile

\* ---- All-time points ----
CardsOf(u) == {c \in Range(allTimeCards) : c.user_id = u}

ReadIndex(c) == CHOOSE i \in 1..Len(allTimeCards) : allTimeCards[i] = c

\* the 1-based position of a card among the cards of its season year and
\* week sorted by total_score descending, equal scores in the order read
FinishRank(c) ==
    LET group == {d \in Range(allTimeCards) : weekKey(d) = weekKey(c)}
    IN 1 + Cardinality({d \in group : d.total_score > c.total_score})
         + Cardinality({d \in group : /\ d.total_score = c.total_score
                                      /\ ReadIndex(d) < ReadIndex(c)})

RECURSIVE FinishPoints(_)
FinishPoints(S) ==
    IF S = {} THEN 0
    ELSE LET c == CHOOSE d \in S : TRUE
         IN Max(1, 10 - (FinishRank(c) - 1)) + FinishPoints(S \ {c})

\* C13: the all-time points of a user are the sum, over the (season year,
\* week) groups in which the user has a card, of max(1, 10 - (rank - 1)) with
\* rank the position of the card in its group by total_score descending.
C13_AllTimePoints ==
    /\ {allTimeData[i].odile : i \in 1..Len(allTimeData)} = Members(allTimeCards)
    /\ \A i \in 1..Len(allTimeData) :
          /\ allTimeData[i].points = FinishPoints(CardsOf(allTimeData[i].odile))
          /\ allTimeData[i].weeksPlayed = Cardinality(CardsOf(allTimeData[i].odile))

\* a user first in one week and eleventh in another has 10 + 1 points
C13_Witness ==
    \E i \in 1..Len(allTimeData) :
        /\ allTimeData[i].points = 11
        /\ \E c, d \in CardsOf(allTimeData[i].odile) :
              c # d /\ FinishRank(c) = 1 /\ FinishRank(d) = 11

\* ---- Wins, losses and win rate ----
PicksOf(u, res) ==
    {b \in bets : /\ b.result = res
                  /\ \E c \in cards : /\ c.id = b.card_id
                                      /\ c.user_id = u
                                      /\ c.league_id = LeagueId}

\* r is wins / (wins + losses) as a percentage rounded to the nearest whole
\* number (halves up), 0 without a graded pick
RoundedRate(r, wins, losses) ==
    IF wins + losses = 0 THEN r = 0
    ELSE /\ 2 * r * (wins + losses) <= 200 * wins + (wins + losses)
         /\ 200 * wins + (wins + losses) < 2 * (r + 1) * (wins + losses)

\* C14: an all-time entry's wins and losses are the numbers of won and lost
\* picks over all cards of the user in the league, its winRate is the rounded
\* percentage of wins among them, 0 without graded pick; pending picks are in
\* neither number.
C14_AggregateWinRate ==
    \A i \in 1..Len(allTimeData) :
        LET e == allTimeData[i]
        IN /\ e.wins = Cardinality(PicksOf(e.odile, "true"))
           /\ e.losses = Cardinality(PicksOf(e.odile, "false"))
           /\ RoundedRate(e.winRate, e.wins, e.losses)

\* two wins and a loss over the cards of two weeks: 67 percent
C14_Witness ==
    \E i \in 1..Len(allTimeData) :
        /\ allTimeData[i].wins = 2
        /\ allTimeData[i].losses = 1
        /\ allTimeData[i].winRate = 67
        /\ allTimeData[i].weeksPlayed = 2

\* ---- Picks without result ----
GradedBets == {b \in bets : b.result # "null"}

CardOf(u, w) == {c \in cards : c.user_id = u /\ c.week_number = w /\ c.league_id = LeagueId}

\* C15: a pick whose result is neither won nor lost adds nothing to the
\* points of its card and is in neither wins nor losses: the weekly entry of a
\* user is what the won and lost picks alone give.
C15_PendingCountsNothing ==
    \A i \in 1..Len(weeklyData) :
        LET e == weeklyData[i]
            mine == {b \in GradedBets : \E c \in CardOf(e.odile, selectedWeek) : b.card_id = c.id}
            won == {b \in mine : b.result = "true"}
        IN /\ e.points = Cardinality(won)
           /\ e.wins = Cardinality(won)
           /\ e.losses = Cardinality(mine \ won)
           /\ RoundedRate(e.winRate, Cardinality(won), Cardinality(mine \ won))

\* the board shows a card with a won, a lost and a pending pick
C15_Witness ==
    \E i \in 1..Len(weeklyData) :
        /\ weeklyData[i].wins = 1
        /\ weeklyData[i].losses = 1
        /\ \E b \in bets \ GradedBets :
              \E c \in CardOf(weeklyData[i].odile, selectedWeek) : b.card_id = c.id

\* ---- Clicks on the pick screen ----
Clickable(s) == {e \in AllEvents : PickScreen(ui[s]) /\ ui[s].pc = "idle" /\ e \in ui[s].events}

\* C21: a click on the team already chosen for a game removes that pick and
\* changes nothing else (no error, no other selection touched); and whenever
\* a click removes a pick, every other selection is as before.
C21_ToggleRemoves ==
    /\ [](\A s \in Sessions : \A e \in Clickable(s) :
            ui[s].selections[e] # "none" =>
                SelectTeam(ui[s], e, ui[s].selections[e])
                    = [f \in AllEvents |-> IF f = e THEN "none" ELSE ui[s].selections[f]])
    /\ [][\A s \in Sessions : ClickOnly(s) =>
            \A e \in AllEvents :
                (ui[s].selections[e] # "none" /\ ui'[s].selections[e] = "none") =>
                    \A f \in AllEvents \ {e} : ui'[s].selections[f] = ui[s].selections[f]]_vars

\* an edit in which the pick of an open game of the card was taken off while
\* another selection stays
C21_Witness ==
    \E s \in Sessions :
        /\ PickScreen(ui[s]) /\ ui[s].isEditing
        /\ \E e \in editableBetEventIds(ui[s]) : ui[s].selections[e] = "none"
        /\ SelectedEvents(ui[s].selections) # {}

\* C28: on the pick screen a click never takes selections plus locked picks
\* from within MAX_PICKS to above it; at the limit a click on a game without
\* selection changes nothing, while a click on a game that has a selection
\* switches it (other team) or removes it (same team).
C28_ClicksKeepLimit ==
    /\ [](\A s \in Sessions : \A e \in Clickable(s) : \A side \in Sides :
            LET u == ui[s]
                after == SelectTeam(u, e, side)
            IN /\ totalPickCount(u) <= MAX_PICKS
                    => totalPickCount([u EXCEPT !.selections = after]) <= MAX_PICKS
               /\ totalPickCount(u) >= MAX_PICKS =>
                    IF u.selections[e] = "none" THEN after = u.selections
                    ELSE after = [u.selections EXCEPT
                                    ![e] = IF u.selections[e] = side THEN "none" ELSE side])
    /\ [][\A s \in Sessions : ClickOnly(s) =>
            (/\ totalPickCount(ui[s]) <= MAX_PICKS => totalPickCount(ui'[s]) <= MAX_PICKS
             /\ totalPickCount(ui[s]) >= MAX_PICKS =>
                    SelectedEvents(ui'[s].selections) \subseteq SelectedEvents(ui[s].selections))]_vars

\* a pick screen at the limit: locked picks of the card, selections on open
\* games, and an open game without selection
C28_Witness ==
    \E s \in Sessions :
        /\ Clickable(s) \ SelectedEvents(ui[s].selections) # {}
        /\ lockedBets(ui[s]) # {}
        /\ SelectedEvents(ui[s].selections) # {}
        /\ totalPickCount(ui[s]) = MAX_PICKS

\* ---- Week number and week range ----
\* C29: from the league's first Tuesday on, the current day lies within the
\* Tuesday-to-Monday range of the week number that getLeagueWeekNumber
\* returns, and the range of each week ends the day before the next begins.
C29_WeekRoundTrip ==
    LET c == leagueCreatedAt
        w == getLeagueWeekNumber(c, today)
    IN today >= firstTuesday(c) =>
          /\ getLeagueWeekDateRange(c, w) <= today
          /\ today <= weekEnd(c, w)
          /\ getDay(getLeagueWeekDateRange(c, w)) = 2
          /\ getDay(weekEnd(c, w)) = 1
          /\ \A v \in 1..w :
                /\ getLeagueWeekDateRange(c, v) <= weekEnd(c, v)
                /\ weekEnd(c, v) + 1 = getLeagueWeekDateRange(c, v + 1)

\* the Monday that ends the second week of the league
C29_Witness ==
    /\ today >= firstTuesday(leagueCreatedAt)
    /\ getLeagueWeekNumber(leagueCreatedAt, today) = 2
    /\ today = weekEnd(leagueCreatedAt, 2)

\* ---- Points of a weekly rank ----
\* C30 (as stated): a user whose only card finished 1st has 10 all-time
\* points, and a user whose only card finished 9th or lower has exactly 1.
C30_NinthDownOnePoint ==
    \A i \in 1..Len(allTimeData) :
        \A c \in CardsOf(allTimeData[i].odile) :
            CardsOf(allTimeData[i].odile) = {c} =>
                /\ FinishRank(c) = 1 => allTimeData[i].points = 10
                /\ FinishRank(c) >= 9 => allTimeData[i].points = 1

\* ---- Season year ----
\* C27 (as stated): the year the betting page stores with a card submitted
\* on a day (the calendar year of that day) is the season year the standings
\* use for the league week of that day (the year of the week's Tuesday).
C27_SeasonYearAgrees ==
    getFullYearOn(today) =
        getLeagueSeasonYear(leagueCreatedAt, getLeagueWeekNumber(leagueCreatedAt, today))

\* ---- Failed requests ----
\* session s gives up before sending the insert of its bets
InsertFails(s) == ui[s].pc = "insert_bets" /\ ui'[s].pc = "idle" /\ bets' = bets

\* C25 (as stated): whenever no mutation is under way every card has a pick
\* (a first submission leaves no card without picks), and when the insert of
\* an edit fails the card still holds a pick for every editable pick the page
\* had read before the edit.
C25_EditAllOrNothing ==
    /\ []((NoStmt /\ \A s \in Sessions : ui[s].pc = "idle") =>
            \A c \in cards : BetsOfCard(bets, c.id) # {})
    /\ [][\A s \in Sessions : InsertFails(s) =>
            \A old \in ui[s].existingBets :
                (ui[s].hasBets /\ old.event_id \in ui[s].events) =>
                    \E b \in BetsOfCard(bets', ui[s].cardId) :
                        /\ b.event_id = old.event_id
                        /\ b.selected_team_id = old.selected_team_id]_vars

\* ---- Two editors of one card ----
\* C23 (as stated): when the mutations of both sessions have finished, the
\* card holds at most MAX_PICKS picks.
C23_TwoEditorsWithinLimit ==
    (NoStmt /\ \A s \in Sessions : ui[s].pc = "idle") =>
        \A c \in cards : Cardinality(BetsOfCard(bets, c.id)) <= MAX_PICKS

\* C22: referential integrity is preserved by every delete: in every state
\* every bet references a stored card, every card a stored league and every
\* membership a stored league, so that after the league is deleted none of
\* its cards, their bets or its memberships remains, and after a card is
\* deleted none of its bets remains.
C22_ReferentialIntegrity ==
    /\ \A b \in bets : references(cards, b.card_id)
    /\ \A c \in cards : references(leagues, c.league_id)
    /\ \A m \in league_members : references(leagues, m.league_id)

\* the league was deleted after a card with picks had been stored in it
C22_Witness ==
    /\ leagues = {}
    /\ card_seq >= 1
    /\ clients[UserId].pc = "idle"
    /\ cards = {} /\ bets = {} /\ league_members = {}

MembersOf(l) == {m \in league_members : m.league_id = l.id}

\* C24: a league's member count never exceeds its max_members, whichever
\* way the members joined and also when several users join at once.
C24_WithinMaxMembers ==
    \A l \in leagues : Cardinality(MembersOf(l)) <= l.max_members

TransferEnds(u) ==
    /\ clients[u].pc \in {"set_owner", "set_member", "set_created_by"}
    /\ clients'[u].pc = "idle"

\* C26: whenever a transfer of ownership finishes, having succeeded or
\* having failed at any of its three updates, the league has exactly one
\* member with the role owner and created_by names that member.
C26_ExactlyOneOwner ==
    [][\A u \in Users : TransferEnds(u) =>
          \A l \in leagues' :
              LET owners == {m \in league_members' :
                                m.league_id = l.id /\ m.role = "owner"}
              IN  /\ Cardinality(owners) = 1
                  /\ \A m \in owners : l.created_by = m.user_id]_vars

====
